---------------------------- MODULE Spec2Model ----------------------------
(***************************************************************************)
(* A model of the adaptive learning engine of chef-ai-learning-lab.        *)
(*                                                                         *)
(* Two engines live in the repository:                                     *)
(*   - ChefAI (backend/learning/core.py), served by backend/api/main.py:   *)
(*     IngredientLearner, RecipeLearner, FlavorLearner, ComplexityManager; *)
(*   - LearningSystem (backend/app/learning_system.py), served by          *)
(*     backend/app/main.py: mastery categories, technique proficiency,     *)
(*     flavor-pair accumulators, novelty records, save_state/load_state.   *)
(*                                                                         *)
(* Real numbers (Python floats) are modelled as exact rationals <<n, d>>   *)
(* in lowest terms with d > 0.  Ratings are given in tenths: the integer   *)
(* r stands for the rating r/10, so 10 is the perfect rating 1.            *)
(***************************************************************************)
EXTENDS Integers, Sequences, FiniteSets, TLC

(***************************************************************************)
(* Exact rational arithmetic.                                              *)
(***************************************************************************)
Abs(x) == IF x < 0 THEN -x ELSE x

RECURSIVE GCD(_, _)
GCD(a, b) == IF b = 0 THEN a ELSE GCD(b, a % b)

Norm(n, d) ==
  LET s == IF d < 0 THEN -1 ELSE 1
      g == GCD(Abs(n), Abs(d))
  IN  IF n = 0 THEN <<0, 1>> ELSE <<(s * n) \div g, (s * d) \div g>>

Q(n, d) == Norm(n, d)
QInt(n) == <<n, 1>>
QAdd(a, b) == Norm(a[1] * b[2] + b[1] * a[2], a[2] * b[2])
QSub(a, b) == Norm(a[1] * b[2] - b[1] * a[2], a[2] * b[2])
QMul(a, b) == Norm(a[1] * b[1], a[2] * b[2])
QDiv(a, b) == Norm(a[1] * b[2], a[2] * b[1])
QLt(a, b) == a[1] * b[2] < b[1] * a[2]
QLe(a, b) == a[1] * b[2] <= b[1] * a[2]
QMin(a, b) == IF QLe(a, b) THEN a ELSE b
QMax(a, b) == IF QLe(a, b) THEN b ELSE a
\* a rating given in tenths, as a rational
Tenths(r) == Norm(r, 10)

Range(s) == {s[i] : i \in 1..Len(s)}
IsPrefix(s, t) == Len(s) <= Len(t) /\ \A i \in 1..Len(s) : s[i] = t[i]
IndexOf(s, x) == CHOOSE i \in 1..Len(s) : s[i] = x
\* the steps of a straight-line body that have run when step `raiser` raises
StepsRun(order, raiser) == SubSeq(order, 1, IndexOf(order, raiser))

(***************************************************************************)
(* A Python dict whose iteration order matters is an association list:     *)
(* a sequence of [k, v] records in insertion order, keys distinct.         *)
(***************************************************************************)
DHas(d, k) == \E i \in 1..Len(d) : d[i].k = k
DIdx(d, k) == CHOOSE i \in 1..Len(d) : d[i].k = k
DGet(d, k) == d[DIdx(d, k)].v
DPut(d, k, v) ==
  IF DHas(d, k) THEN [d EXCEPT ![DIdx(d, k)] = [k |-> k, v |-> v]]
  ELSE Append(d, [k |-> k, v |-> v])
DKeys(d) == {d[i].k : i \in 1..Len(d)}

(***************************************************************************)
(* State.                                                                  *)
(***************************************************************************)
VARIABLES
  \* ChefAI.ingredient_learner
  compatibility_matrix,   \* [row -> [col -> rational]], rows and cols as created
  confidence_scores,      \* [row -> [col -> integer]]
  \* ChefAI.recipe_learner
  technique_graph,        \* [nodes |-> set, weight |-> [<<t1, t2>> -> integer]]
  technique_difficulties, \* [<<t1, t2>> -> rational]
  \* ChefAI.flavor_learner
  flavor_profiles,        \* the ingredients that own a (random) flavor vector
  successful_combinations,\* sequence of ingredient lists
  \* ChefAI.complexity_manager
  current_level,          \* integer
  progression_history,    \* sequence of [level, success_rate, timestamp]
  \* LearningSystem
  categories,             \* mastery.categories: [SkillCategory -> rational]
  known_recipes,          \* [key -> [first_attempted, times_attempted]]
  technique_proficiency,  \* [technique -> rational]
  flavor_combinations,    \* dict of dicts (association lists) of rationals
  \* the snapshot file learning_state.json: NoFile or the JSON document
  file,
  \* the build: whether sklearn's TSNE rejects perplexity >= n_samples
  tsne_strict,
  \* observation of the run
  calls,                  \* the log of the calls made so far: name, arguments, outcome
  experiments,            \* what the most recent suggest_experiments returned
  \* the requests in flight on the event loops of the two services
  tasks,                  \* sequence of [app, op, arguments, pc, status]
  running,                \* [app -> the task that holds the event loop, or 0]
  observed                \* what the queries and snapshot saves have seen

chefVars == <<compatibility_matrix, confidence_scores, technique_graph,
              technique_difficulties, flavor_profiles, successful_combinations,
              current_level, progression_history>>
lsVars == <<categories, known_recipes, technique_proficiency, flavor_combinations>>
loopVars == <<tasks, running, observed>>
vars == <<chefVars, lsVars, file, tsne_strict, calls, experiments, loopVars>>

\* the most recent call, and the timestamp the next call is stamped with
NoCall == [op |-> "none"]
Last == IF calls = <<>> THEN NoCall ELSE calls[Len(calls)]
Now == Len(calls) + 1

(***************************************************************************)
(* ComplexityManager (core.py).                                            *)
(***************************************************************************)
LevelCap == 100
LevelFloor == 0
PromotionStep == 5
DemotionStep == 2

PromotionUnscaled(level, rating, technique_count) ==
  rating > 8 /\ technique_count >= level
Promotion(level, rating, technique_count) ==
  rating > 8 /\ 10 * technique_count >= level

DemotionInclusive(rating) == rating <= 3
Demotion(rating) == rating < 3

PromoteUncapped(level) == level + PromotionStep
Promote(level) ==
  IF level + PromotionStep < LevelCap THEN level + PromotionStep ELSE LevelCap

DemoteUnfloored(level) == level - DemotionStep
Demote(level) ==
  IF level - DemotionStep > LevelFloor THEN level - DemotionStep ELSE LevelFloor

\* the level after update_complexity
NewLevel(level, rating, technique_count) ==
  IF Promotion(level, rating, technique_count) THEN Promote(level)
  ELSE IF Demotion(rating) THEN Demote(level)
  ELSE level

UpdateComplexityLoggingChanges(level, history, rating, technique_count, timestamp) ==
  LET nl == NewLevel(level, rating, technique_count)
  IN  <<nl, IF nl = level THEN history
            ELSE Append(history, [level |-> nl, success_rate |-> rating,
                                  timestamp |-> timestamp])>>

\* update_complexity(recipe_data) on <<current_level, progression_history>>
UpdateComplexity(level, history, rating, technique_count, timestamp) ==
  LET nl == NewLevel(level, rating, technique_count)
  IN  <<nl, Append(history, [level |-> nl, success_rate |-> rating,
                             timestamp |-> timestamp])>>

(***************************************************************************)
(* Initial state: ChefAI() and LearningSystem() just constructed, no       *)
(* snapshot file.                                                          *)
(***************************************************************************)
\* the members of the enum CulinaryMastery.SkillCategory and their values
SkillCategory == {"TECHNIQUE_MASTERY", "FLAVOR_PAIRING", "TIMING_CONTROL",
                  "INGREDIENT_KNOWLEDGE", "RECIPE_COMPLEXITY",
                  "SEASONING_EXPERTISE", "TEMPERATURE_CONTROL", "PRESENTATION"}
CategoryValue ==
  [c \in SkillCategory |->
     CASE c = "TECHNIQUE_MASTERY" -> "technique_mastery"
       [] c = "FLAVOR_PAIRING" -> "flavor_pairing"
       [] c = "TIMING_CONTROL" -> "timing_control"
       [] c = "INGREDIENT_KNOWLEDGE" -> "ingredient_knowledge"
       [] c = "RECIPE_COMPLEXITY" -> "recipe_complexity"
       [] c = "SEASONING_EXPERTISE" -> "seasoning_expertise"
       [] c = "TEMPERATURE_CONTROL" -> "temperature_control"
       [] c = "PRESENTATION" -> "presentation"]
CategoryValues == {CategoryValue[c] : c \in SkillCategory}
\* changes = {category.value: 0.0 for category in SkillCategory}
NoChanges == [v \in CategoryValues |-> QInt(0)]
NoFile == [exists |-> FALSE]
\* the two FastAPI applications, each served by one event loop
Apps == {"api", "app"}
EmptyMap == [x \in {} |-> 0]

Init ==
  /\ compatibility_matrix = EmptyMap
  /\ confidence_scores = EmptyMap
  /\ technique_graph = [nodes |-> {}, weight |-> EmptyMap]
  /\ technique_difficulties = EmptyMap
  /\ flavor_profiles = {}
  /\ successful_combinations = <<>>
  /\ current_level = 0
  /\ progression_history = <<>>
  /\ categories = [c \in SkillCategory |-> QInt(0)]
  /\ known_recipes = EmptyMap
  /\ technique_proficiency = EmptyMap
  /\ flavor_combinations = <<>>
  /\ file = NoFile
  /\ tsne_strict \in BOOLEAN
  /\ calls = <<>>
  /\ experiments = <<>>
  /\ tasks = <<>>
  /\ running = [app \in Apps |-> 0]
  /\ observed = <<>>

\* the initial state for the runs that exercise one component on its own and
\* never reach TSNE
InitComponent == Init /\ tsne_strict = TRUE

(***************************************************************************)
(* Direct calls of ComplexityManager.update_complexity.                    *)
(***************************************************************************)
MaxComplexityCalls == 36
MaxSwitches == 1
ComplexityRatings == {2, 9}
TechniqueCounts == {2, 10}

\* how often the caller changed its arguments from one call to the next
Switches(log) ==
  Cardinality({i \in 1..(Len(log) - 1) :
                 <<log[i].rating, log[i].technique_count>>
                   # <<log[i + 1].rating, log[i + 1].technique_count>>})

UpdateComplexityCall(rating, technique_count) ==
  LET r == UpdateComplexity(current_level, progression_history, rating,
                            technique_count, Now)
      c == [op |-> "update_complexity", rating |-> rating,
            technique_count |-> technique_count]
  IN  /\ Len(calls) < MaxComplexityCalls
      /\ Switches(Append(calls, c)) <= MaxSwitches
      /\ current_level' = r[1]
      /\ progression_history' = r[2]
      /\ calls' = Append(calls, c)
      /\ UNCHANGED <<compatibility_matrix, confidence_scores, technique_graph,
                     technique_difficulties, flavor_profiles,
                     successful_combinations, lsVars, file, tsne_strict,
                     experiments, loopVars>>

NextComplexity ==
  \E rating \in ComplexityRatings, technique_count \in TechniqueCounts :
    UpdateComplexityCall(rating, technique_count)

SpecComplexity == InitComponent /\ [][NextComplexity]_vars

\* the level before and after the i-th call of a run of update_complexity calls
LevelAfter(i) == IF i = 0 THEN 0 ELSE progression_history[i].level
LevelBefore(i) == LevelAfter(i - 1)

\* C3: after any sequence of update_complexity calls the level is within
\* [0, 100], now and in every logged entry.
C3_LevelInRange ==
  /\ current_level >= 0 /\ current_level <= 100
  /\ \A i \in 1..Len(progression_history) :
       progression_history[i].level >= 0 /\ progression_history[i].level <= 100

\* a promotion was asked for at level 100 and the level stayed at 100
C3_Witness ==
  /\ Len(calls) >= 2
  /\ Last.op = "update_complexity" /\ Last.rating = 9 /\ Last.technique_count = 10
  /\ LevelBefore(Len(calls)) = 100
  /\ current_level = 100

\* C4: from level 0, N consecutive calls with rating 0.9 and a technique count
\* of at least level/10 at the time of the call leave the level at min(100, 5N).
C4_PromotionRun ==
  \A n \in 1..Len(calls) :
    (\A i \in 1..n : /\ calls[i].op = "update_complexity"
                     /\ calls[i].rating = 9
                     /\ 10 * calls[i].technique_count >= LevelBefore(i))
    => /\ LevelAfter(n) = (IF 5 * n < 100 THEN 5 * n ELSE 100)
       /\ (n = Len(calls) => current_level = LevelAfter(n))

\* 21 qualifying calls in a row: 5N = 105 is capped to 100
C4_Witness ==
  /\ Len(calls) = 21
  /\ \A i \in 1..21 : /\ calls[i].rating = 9
                       /\ 10 * calls[i].technique_count >= LevelBefore(i)
  /\ current_level = 100

\* C5: from level 50, n consecutive calls with rating 0.2 leave the level at
\* 50 - 2n while that is not negative and at 0 afterwards: each call lowers the
\* level by exactly 2 down to the floor 0, and the level is never negative.
C5_DemotionRun ==
  \A k \in 0..Len(calls) : \A n \in k..Len(calls) :
    (/\ LevelAfter(k) = 50
     /\ \A i \in (k + 1)..n : calls[i].op = "update_complexity" /\ calls[i].rating = 2)
    => /\ LevelAfter(n) = (IF 50 - 2 * (n - k) > 0 THEN 50 - 2 * (n - k) ELSE 0)
       /\ LevelAfter(n) >= 0
       /\ (n > k /\ LevelBefore(n) >= 2 => LevelAfter(n) = LevelBefore(n) - 2)
       /\ (n > k /\ LevelBefore(n) = 0 => LevelAfter(n) = 0)

\* level 50 was reached, 25 calls with rating 0.2 brought it to 0, and one
\* more left it there
C5_Witness ==
  \E k \in 0..Len(calls) :
    /\ LevelAfter(k) = 50
    /\ Len(calls) >= k + 26
    /\ \A i \in (k + 1)..Len(calls) : calls[i].rating = 2
    /\ LevelBefore(Len(calls)) = 0
    /\ current_level = 0

(***************************************************************************)
(* IngredientLearner (core.py).  compatibility_matrix and                  *)
(* confidence_scores are defaultdicts of defaultdicts: reading m[r][c]     *)
(* creates row r and entry c with the default (0.0, or 1.0 for the         *)
(* confidence).                                                            *)
(***************************************************************************)
MHas(m, r, c) == r \in DOMAIN m /\ c \in DOMAIN m[r]
MGet(m, r, c, default) == IF MHas(m, r, c) THEN m[r][c] ELSE default
MRow(m, r) == IF r \in DOMAIN m THEN m[r] ELSE EmptyMap
MPut(m, r, c, v) ==
  [x \in DOMAIN m \cup {r} |->
     IF x = r
     THEN [y \in DOMAIN MRow(m, r) \cup {c} |-> IF y = c THEN v ELSE m[r][y]]
     ELSE m[x]]

DefaultScore == 0
DefaultConfidence == 1

\* the Bayesian update of one entry: <<new_score, new_confidence>>
Blend(score, confidence, rating) ==
  <<QDiv(QAdd(QMul(score, QInt(confidence)), Tenths(rating)), QInt(confidence + 1)),
    confidence + 1>>

\* the positions <<p1, p2>> the two nested loops visit, in order
PairPositionsForward(n) ==
  [k \in 1..(n * n) |->
     LET p1 == ((k - 1) \div n) + 1
         p2 == ((k - 1) % n) + 1
     IN  IF p1 < p2 THEN <<p1, p2>> ELSE <<p1, p1>>]
PairPositions(n) ==
  [k \in 1..(n * n) |-> <<((k - 1) \div n) + 1, ((k - 1) % n) + 1>>]

\* the loop body for i1, i2 on mc = <<compatibility_matrix, confidence_scores>>
StoreBlend(mc, i1, i2, b) ==
  <<MPut(mc[1], i1, i2, b[1]), MPut(mc[2], i1, i2, b[2])>>
PairUpdate(mc, i1, i2, rating) ==
  IF i1 # i2
  THEN StoreBlend(mc, i1, i2, Blend(MGet(mc[1], i1, i2, QInt(DefaultScore)),
                                    MGet(mc[2], i1, i2, DefaultConfidence), rating))
  ELSE mc

RECURSIVE LearnLoop(_, _, _, _, _)
LearnLoop(mc, ingredients, rating, positions, k) ==
  IF k > Len(positions) THEN mc
  ELSE LearnLoop(PairUpdate(mc, ingredients[positions[k][1]],
                            ingredients[positions[k][2]], rating),
                 ingredients, rating, positions, k + 1)

\* learn_from_feedback(ingredients, rating); _update_embeddings only builds the
\* embedding model and touches neither map
LearnFromFeedback(mc, ingredients, rating) ==
  LearnLoop(mc, ingredients, rating, PairPositions(Len(ingredients)), 1)

(***************************************************************************)
(* Direct calls of IngredientLearner.learn_from_feedback.                  *)
(***************************************************************************)
MaxCompatCalls == 3
Ingredients == {"lemon", "chicken", "garlic", "onion"}
CompatLists == {<<"lemon">>, <<"lemon", "chicken">>, <<"chicken", "lemon">>,
                <<"lemon", "chicken", "garlic">>, <<"lemon", "chicken", "lemon">>}
CompatRatings == {0, 5, 9}

LearnFromFeedbackCall(ingredients, rating) ==
  /\ Len(calls) < MaxCompatCalls
  /\ \E mc \in {LearnFromFeedback(<<compatibility_matrix, confidence_scores>>,
                                  ingredients, rating)} :
      /\ compatibility_matrix' = mc[1]
      /\ confidence_scores' = mc[2]
      /\ calls' = Append(calls, [op |-> "learn_from_feedback",
                                 ingredients |-> ingredients, rating |-> rating])
      /\ UNCHANGED <<technique_graph, technique_difficulties, flavor_profiles,
                     successful_combinations, current_level, progression_history,
                     lsVars, file, tsne_strict, experiments, loopVars>>

NextIngredient ==
  \E ingredients \in CompatLists, rating \in CompatRatings :
    LearnFromFeedbackCall(ingredients, rating)

SpecIngredient == InitComponent /\ [][NextIngredient]_vars

\* C1: after any sequence of learn_from_feedback calls, (A,B) is stored exactly
\* when (B,A) is, with the same compatibility score and the same confidence.
C1_Symmetry ==
  \A a \in Ingredients, b \in Ingredients :
    a # b =>
      /\ MHas(compatibility_matrix, a, b) <=> MHas(compatibility_matrix, b, a)
      /\ MHas(confidence_scores, a, b) <=> MHas(confidence_scores, b, a)
      /\ MHas(compatibility_matrix, a, b) <=> MHas(confidence_scores, a, b)
      /\ MHas(compatibility_matrix, a, b) =>
           /\ compatibility_matrix[a][b] = compatibility_matrix[b][a]
           /\ confidence_scores[a][b] = confidence_scores[b][a]

\* a pair blended in several calls, one of them with a repeated name, holds a
\* non-zero score and agrees in both directions
C1_Witness ==
  /\ Len(calls) = 3
  /\ \E i \in 1..3 : calls[i].ingredients = <<"lemon", "chicken", "lemon">>
  /\ MHas(compatibility_matrix, "lemon", "chicken")
  /\ confidence_scores["lemon"]["chicken"] >= 4
  /\ QLt(QInt(0), compatibility_matrix["chicken"]["lemon"])
  /\ compatibility_matrix["lemon"]["chicken"] = compatibility_matrix["chicken"]["lemon"]

(***************************************************************************)
(* RecipeLearner (core.py).  technique_graph is a networkx DiGraph:        *)
(* add_edge creates both end nodes; weight maps each edge to its weight.   *)
(***************************************************************************)
HasEdge(g, e) == e \in DOMAIN g.weight
MapPut(f, k, v) == [x \in DOMAIN f \cup {k} |-> IF x = k THEN v ELSE f[x]]

TechniqueGateInclusive(success_rating) == success_rating >= 7
TechniqueGate(success_rating) == success_rating > 7

UpdateDifficultyFromZero(d, e, rating) ==
  LET current_diff == IF e \in DOMAIN d THEN d[e] ELSE QInt(0)
  IN  MapPut(d, e, QDiv(QAdd(current_diff, Tenths(rating)), QInt(2)))

\* _update_difficulty(tech1, tech2, rating); the prior 0.5 is 1/2
UpdateDifficulty(d, e, rating) ==
  LET current_diff == IF e \in DOMAIN d THEN d[e] ELSE Q(1, 2)
  IN  MapPut(d, e, QDiv(QAdd(current_diff, Tenths(rating)), QInt(2)))

\* the loop body for one consecutive pair, on gd = <<technique_graph, technique_difficulties>>
EdgeUpdate(gd, current, next_tech, rating) ==
  LET g == gd[1]
      e == <<current, next_tech>>
      g2 == IF ~HasEdge(g, e)
            THEN [nodes |-> g.nodes \cup {current, next_tech},
                  weight |-> MapPut(g.weight, e, 1)]
            ELSE [g EXCEPT !.weight[e] = @ + 1]
  IN  <<g2, UpdateDifficulty(gd[2], e, rating)>>

RECURSIVE SequenceLoop(_, _, _, _)
SequenceLoop(gd, techniques, rating, i) ==
  IF i > Len(techniques) - 1 THEN gd
  ELSE SequenceLoop(EdgeUpdate(gd, techniques[i], techniques[i + 1], rating),
                    techniques, rating, i + 1)

\* learn_technique_sequence(techniques, success_rating)
LearnTechniqueSequence(gd, techniques, success_rating) ==
  IF TechniqueGate(success_rating)
  THEN SequenceLoop(gd, techniques, success_rating, 1)
  ELSE gd

(***************************************************************************)
(* Direct calls of RecipeLearner.learn_technique_sequence.                 *)
(***************************************************************************)
MaxTechniqueCalls == 3
Techniques == {"saute", "sear", "roast"}
TechniqueLists == {<<"saute">>, <<"saute", "sear">>, <<"sear", "saute">>,
                   <<"saute", "saute">>, <<"saute", "sear", "roast">>}
TechniqueRatings == {5, 7, 9, 10}

LearnTechniqueSequenceCall(techniques, success_rating) ==
  /\ Len(calls) < MaxTechniqueCalls
  /\ \E gd \in {LearnTechniqueSequence(<<technique_graph, technique_difficulties>>,
                                       techniques, success_rating)} :
      /\ technique_graph' = gd[1]
      /\ technique_difficulties' = gd[2]
      /\ calls' = Append(calls, [op |-> "learn_technique_sequence",
                                 techniques |-> techniques,
                                 rating |-> success_rating])
      /\ UNCHANGED <<compatibility_matrix, confidence_scores, flavor_profiles,
                     successful_combinations, current_level, progression_history,
                     lsVars, file, tsne_strict, experiments, loopVars>>

NextTechnique ==
  \E techniques \in TechniqueLists, success_rating \in TechniqueRatings :
    LearnTechniqueSequenceCall(techniques, success_rating)

SpecTechnique == InitComponent /\ [][NextTechnique]_vars

\* C7: a learn_technique_sequence call whose rating is not greater than 0.7
\* leaves the technique graph unchanged: no node, no edge, no weight and no
\* difficulty estimate changes.
C7_GatedCallChangesNothing ==
  [][(/\ Len(calls') = Len(calls) + 1
      /\ calls'[Len(calls')].op = "learn_technique_sequence"
      /\ calls'[Len(calls')].rating <= 7)
     => /\ technique_graph' = technique_graph
        /\ technique_difficulties' = technique_difficulties]_vars

\* an accepted sequence built the edge saute -> sear; the same sequence at
\* exactly 0.7 then left its weight at 1 and its difficulty at (0.5 + 0.9)/2
C7_Witness ==
  /\ Len(calls) = 2
  /\ calls[1] = [op |-> "learn_technique_sequence",
                 techniques |-> <<"saute", "sear">>, rating |-> 9]
  /\ calls[2] = [op |-> "learn_technique_sequence",
                 techniques |-> <<"saute", "sear">>, rating |-> 7]
  /\ technique_graph.nodes = {"saute", "sear"}
  /\ technique_graph.weight[<<"saute", "sear">>] = 1
  /\ technique_difficulties[<<"saute", "sear">>] = Q(7, 10)

(***************************************************************************)
(* LearningSystem._update_mastery_levels (learning_system.py).             *)
(***************************************************************************)
\* feedback_multiplier: 1.0 for the perfect rating, -0.5 otherwise
FeedbackMultiplierGraded(rating) == IF rating >= 5 THEN QInt(1) ELSE Q(-1, 2)
FeedbackMultiplier(rating) == IF rating = 10 THEN QInt(1) ELSE Q(-1, 2)

ClampUpperOnly(x) == QMin(QInt(1), x)
Clamp(x) == QMax(QInt(0), QMin(QInt(1), x))

\* the new value of one category
MasteryValue(current_value, delta, complexity, rating) ==
  LET learning_rate == QMul(Q(1, 10), QSub(QInt(1), current_value))
      change == QMul(QMul(QMul(delta, complexity), FeedbackMultiplier(rating)),
                     learning_rate)
  IN  Clamp(QAdd(current_value, change))

\* _update_mastery_levels(changes, complexity, feedback) on mastery.categories
UpdateMasteryLevels(cats, changes, complexity, rating) ==
  [c \in SkillCategory |->
     MasteryValue(cats[c], changes[CategoryValue[c]], complexity, rating)]

(***************************************************************************)
(* Direct calls of _update_mastery_levels with arbitrary deltas.           *)
(***************************************************************************)
MaxMasteryCalls == 3
MasteryDeltas == {QInt(5), QInt(20)}
MasteryComplexities == {Q(1, 2), QInt(1)}
MasteryRatings == {5, 10}
MasteryTargets == {"technique_mastery", "recipe_complexity"}

UpdateMasteryLevelsCall(target, delta, complexity, rating) ==
  LET changes == [NoChanges EXCEPT ![target] = delta]
  IN  /\ Len(calls) < MaxMasteryCalls
      /\ categories' = UpdateMasteryLevels(categories, changes, complexity, rating)
      /\ calls' = Append(calls, [op |-> "_update_mastery_levels",
                                 changes |-> changes, complexity |-> complexity,
                                 rating |-> rating])
      /\ UNCHANGED <<chefVars, known_recipes, technique_proficiency,
                     flavor_combinations, file, tsne_strict, experiments, loopVars>>

NextMastery ==
  \E target \in MasteryTargets, delta \in MasteryDeltas,
     complexity \in MasteryComplexities, rating \in MasteryRatings :
    UpdateMasteryLevelsCall(target, delta, complexity, rating)

SpecMastery == InitComponent /\ [][NextMastery]_vars

\* C2: after any sequence of mastery updates each of the 8 category values is
\* in [0, 1].
C2_MasteryBounded ==
  /\ DOMAIN categories = SkillCategory
  /\ Cardinality(SkillCategory) = 8
  /\ \A c \in SkillCategory :
       QLe(QInt(0), categories[c]) /\ QLe(categories[c], QInt(1))

\* technique_mastery rose to 1/4, an update that would take it to -1/2 left it
\* at 0, and an update that would take it to 2 left it at 1
C2_Witness ==
  /\ Len(calls) = 3
  /\ calls[1].changes["technique_mastery"] = QInt(5)
  /\ calls[1].complexity = Q(1, 2) /\ calls[1].rating = 10
  /\ calls[2].changes["technique_mastery"] = QInt(20)
  /\ calls[2].complexity = QInt(1) /\ calls[2].rating = 5
  /\ calls[3].changes["technique_mastery"] = QInt(20)
  /\ calls[3].complexity = QInt(1) /\ calls[3].rating = 10
  /\ categories["TECHNIQUE_MASTERY"] = QInt(1)
  /\ categories["RECIPE_COMPLEXITY"] = QInt(0)

(***************************************************************************)
(* LearningSystem.evaluate_recipe_success and its helpers.                 *)
(***************************************************************************)
SaturatedUncapped(count, saturation) == Q(count, saturation)
\* min(1.0, count / saturation)
Saturated(count, saturation) == QMin(QInt(1), Q(count, saturation))

\* _calculate_complexity(recipe): the mean of the four capped ratios
CalculateComplexity(num_ingredients, num_techniques, num_steps, total_time) ==
  QDiv(QAdd(QAdd(Saturated(num_ingredients, 10), Saturated(num_techniques, 5)),
            QAdd(Saturated(num_steps, 15), Saturated(total_time, 60))),
       QInt(4))

\* one pass of the loop over recipe["techniques"] (lines 53-57), on
\* tb = <<technique_proficiency, changes[technique_mastery]>>
TechniqueStep(tb, t, complexity_score) ==
  LET tp == tb[1]
      tp1 == IF t \in DOMAIN tp THEN tp ELSE MapPut(tp, t, Q(1, 10))
      tp2 == [tp1 EXCEPT ![t] = QMin(QInt(1),
                                    QAdd(@, QMul(Q(1, 10), complexity_score)))]
  IN  <<tp2, QAdd(tb[2], Q(5, 100))>>

\* the passes for techniques[lo..hi] in list order, the first half and then
\* the second
RECURSIVE TechniqueRange(_, _, _, _, _)
TechniqueRange(tb, techniques, complexity_score, lo, hi) ==
  IF lo > hi THEN tb
  ELSE IF lo = hi THEN TechniqueStep(tb, techniques[lo], complexity_score)
  ELSE CHOOSE last \in
         {TechniqueRange(first, techniques, complexity_score, (lo + hi) \div 2 + 1, hi) :
            first \in {TechniqueRange(tb, techniques, complexity_score,
                                      lo, (lo + hi) \div 2)}} : TRUE

\* the loop over recipe["techniques"] taken on the perfect rating:
\* <<technique_proficiency, changes[technique_mastery]>>
TechniqueLoop(tp, bonus, techniques, complexity_score, i) ==
  TechniqueRange(<<tp, bonus>>, techniques, complexity_score, i, Len(techniques))

FlavorChangeOnPositive(success) == IF success > 0 THEN QInt(1) ELSE Q(-1, 2)
\* change = 1 if success == 1 else -0.5
FlavorChange(success) == IF success = 10 THEN QInt(1) ELSE Q(-1, 2)

\* if ing not in self.flavor_combinations: self.flavor_combinations[ing] = {}
EnsureRow(fc, ing) == IF DHas(fc, ing) THEN fc ELSE DPut(fc, ing, <<>>)
\* if b not in self.flavor_combinations[a]: self.flavor_combinations[a][b] = 0
EnsureEntry(fc, a, b) ==
  IF DHas(DGet(fc, a), b) THEN fc ELSE DPut(fc, a, DPut(DGet(fc, a), b, QInt(0)))
\* self.flavor_combinations[a][b] += change
AddChange(fc, a, b, change) ==
  DPut(fc, a, DPut(DGet(fc, a), b, QAdd(DGet(DGet(fc, a), b), change)))

\* _update_flavor_pairing(ing1, ing2, success) on flavor_combinations
UpdateFlavorPairing(fc, ing1, ing2, success) ==
  AddChange(
    AddChange(
      EnsureEntry(EnsureEntry(EnsureRow(EnsureRow(fc, ing1), ing2), ing1, ing2),
                  ing2, ing1),
      ing1, ing2, FlavorChange(success)),
    ing2, ing1, FlavorChange(success))

\* the positions <<i, j>>, i < j, of the flavor loops, in order
ForwardPairs(n) ==
  SelectSeq([k \in 1..(n * n) |-> <<((k - 1) \div n) + 1, ((k - 1) % n) + 1>>],
            LAMBDA p : p[1] < p[2])

RECURSIVE FlavorLoop(_, _, _, _, _)
FlavorLoop(fc, ingredients, rating, positions, k) ==
  IF k > Len(positions) THEN fc
  ELSE FlavorLoop(UpdateFlavorPairing(fc, ingredients[positions[k][1]],
                                      ingredients[positions[k][2]], rating),
                  ingredients, rating, positions, k + 1)

\* The novelty record is stored under str(combination) and looked up under the
\* tuple combination itself; a tuple is never equal to a string.
StrKey(ingredients, techniques) ==
  [kind |-> "str", ingredients |-> Range(ingredients), techniques |-> Range(techniques)]
TupleKey(ingredients, techniques) ==
  [kind |-> "tuple", ingredients |-> Range(ingredients), techniques |-> Range(techniques)]

\* is_novel = combination not in self.known_recipes
IsNovel(kr, ingredients, techniques) ==
  TupleKey(ingredients, techniques) \notin DOMAIN kr

\* _is_novel_combination(recipe): <<known_recipes, is_novel>>
IsNovelCombination(kr, ingredients, techniques, now) ==
  LET key == StrKey(ingredients, techniques)
      is_novel == IsNovel(kr, ingredients, techniques)
  IN  IF is_novel
      THEN <<MapPut(kr, key, [first_attempted |-> now, times_attempted |-> 1]), TRUE>>
      ELSE <<[kr EXCEPT ![key].times_attempted = @ + 1], FALSE>>

\* the attributes LearningSystem.__init__ sets; reading any other attribute of
\* the object raises AttributeError
LearningSystemWithInnovations ==
  {"mastery", "known_recipes", "ingredient_relationships", "technique_proficiency",
   "flavor_combinations", "innovation_attempts", "feedback_history",
   "successful_innovations"}

LearningSystemAttributes ==
  {"mastery", "known_recipes", "ingredient_relationships", "technique_proficiency",
   "flavor_combinations", "innovation_attempts", "feedback_history"}

\* The steps of evaluate_recipe_success in the order of the code.  The novelty
\* step raises AttributeError on a novel recipe with the perfect rating:
\* LearningSystem has no attribute successful_innovations (it belongs to
\* self.mastery), and the steps after it are not run.
EvaluateOrder == <<"complexity_score", "technique_proficiency", "flavor_pairing",
                   "novelty", "mastery">>

\* the technique-usage block (lines 51-57):
\* <<technique_proficiency, changes[technique_mastery]>>
EvaluateTechniques(tp, techniques, rating, complexity_score) ==
  IF rating = 10
  THEN TechniqueLoop(tp, QInt(0), techniques, complexity_score, 1)
  ELSE <<tp, QInt(0)>>

\* the innovation block and the mastery update (lines 66-77), given the
\* results tl, fc1 and nov of the blocks before them
EvaluateResult(cats, rating, complexity_score, tl, fc1, nov) ==
  LET raised == nov[2] /\ rating = 10
                  /\ "successful_innovations" \notin LearningSystemAttributes
      changes == [NoChanges EXCEPT
                    !["technique_mastery"] = tl[2],
                    !["recipe_complexity"] = IF nov[2] THEN Q(1, 10) ELSE QInt(0)]
      done == IF raised THEN StepsRun(EvaluateOrder, "novelty") ELSE EvaluateOrder
  IN  [categories |-> IF "mastery" \in Range(done)
                      THEN UpdateMasteryLevels(cats, changes, complexity_score, rating)
                      ELSE cats,
       known_recipes |-> nov[1],
       technique_proficiency |-> tl[1],
       flavor_combinations |-> fc1,
       is_novel |-> nov[2],
       raised |-> raised,
       changes |-> changes,
       complexity_score |-> complexity_score,
       order |-> done]

EvaluateWith(cats, kr, tp, fc, ingredients, techniques, rating, now, complexity_score) ==
  EvaluateResult(cats, rating, complexity_score,
                 EvaluateTechniques(tp, techniques, rating, complexity_score),
                 FlavorLoop(fc, ingredients, rating, ForwardPairs(Len(ingredients)), 1),
                 IsNovelCombination(kr, ingredients, techniques, now))

\* evaluate_recipe_success(recipe, feedback), for a recipe with no steps as
\* the /api/learn handler builds it (main.py, "steps": [])
EvaluateRecipeSuccess(cats, kr, tp, fc, ingredients, techniques, rating, now) ==
  EvaluateWith(cats, kr, tp, fc, ingredients, techniques, rating, now,
               CalculateComplexity(Len(ingredients), Len(techniques), 0, 0))

(***************************************************************************)
(* LearningSystem.suggest_experiments.                                     *)
(***************************************************************************)
RECURSIVE Flatten(_)
Flatten(ss) == IF ss = <<>> THEN <<>> ELSE Head(ss) \o Flatten(Tail(ss))

MapSeq(s, F(_)) == [i \in 1..Len(s) |-> F(s[i])]

\* the test on ing3 under ing1's row: positive score, no entry under ing1, not ing1
ExperimentTestNoSelfCheck(row1, ing1, p3) ==
  QLt(QInt(0), p3.v) /\ ~DHas(row1, p3.k)
ExperimentTest(row1, ing1, p3) ==
  QLt(QInt(0), p3.v) /\ ~DHas(row1, p3.k) /\ p3.k # ing1

\* the experiments appended for one ing1 and one of its successful partners ing2
ExperimentsVia(fc, e1, p2) ==
  LET row2 == IF DHas(fc, p2.k) THEN DGet(fc, p2.k) ELSE <<>>
  IN  MapSeq(SelectSeq(row2, LAMBDA p3 : ExperimentTest(e1.v, e1.k, p3)),
             LAMBDA p3 : [ingredients |-> <<e1.k, p3.k>>,
                          reasoning |-> p2.k,
                          confidence |-> QDiv(QMin(DGet(e1.v, p2.k),
                                                   DGet(row2, p3.k)),
                                              QInt(10))])

\* the experiments appended for one ing1, an entry of flavor_combinations
ExperimentsOf(fc, e1) ==
  LET successful_pairs == SelectSeq(e1.v, LAMBDA p : QLt(QInt(0), p.v))
  IN  Flatten(MapSeq(successful_pairs, LAMBDA p2 : ExperimentsVia(fc, e1, p2)))

\* sorted(experiments, key=confidence, reverse=True): stable, so equal
\* confidences keep their order
InsertByConfidence(sorted, x) ==
  LET keep == Cardinality({i \in 1..Len(sorted) :
                             QLe(x.confidence, sorted[i].confidence)})
  IN  SubSeq(sorted, 1, keep) \o <<x>> \o SubSeq(sorted, keep + 1, Len(sorted))

\* the proposals as they were appended
AsAppended(s) == s

RECURSIVE SortedByConfidence(_)
SortedByConfidence(s) ==
  IF s = <<>> THEN <<>>
  ELSE InsertByConfidence(SortedByConfidence(SubSeq(s, 1, Len(s) - 1)), s[Len(s)])

SuggestExperiments(fc) ==
  SortedByConfidence(Flatten(MapSeq(fc, LAMBDA e1 : ExperimentsOf(fc, e1))))

(***************************************************************************)
(* Direct calls of LearningSystem.evaluate_recipe_success and              *)
(* suggest_experiments.                                                    *)
(***************************************************************************)
MaxLSCalls == 4

\* one call of evaluate_recipe_success in a run of at most max_calls calls
EvaluateRecipeSuccessUpTo(max_calls, ingredients, techniques, rating) ==
  /\ Len(calls) < max_calls
  /\ \E r \in {EvaluateRecipeSuccess(categories, known_recipes, technique_proficiency,
                                    flavor_combinations, ingredients, techniques,
                                    rating, Now)} :
      /\ categories' = r.categories
      /\ known_recipes' = r.known_recipes
      /\ technique_proficiency' = r.technique_proficiency
      /\ flavor_combinations' = r.flavor_combinations
      /\ calls' = Append(calls, [op |-> "evaluate_recipe_success",
                                 ingredients |-> ingredients,
                                 techniques |-> techniques, rating |-> rating,
                                 is_novel |-> r.is_novel, raised |-> r.raised,
                                 order |-> r.order, saved |-> FALSE])
      /\ UNCHANGED <<chefVars, file, tsne_strict, experiments, loopVars>>

EvaluateRecipeSuccessCall(ingredients, techniques, rating) ==
  EvaluateRecipeSuccessUpTo(MaxLSCalls, ingredients, techniques, rating)

\* one call of suggest_experiments in a run of at most max_calls calls
SuggestExperimentsUpTo(max_calls) ==
  /\ Len(calls) < max_calls
  /\ experiments' = SuggestExperiments(flavor_combinations)
  /\ calls' = Append(calls, [op |-> "suggest_experiments"])
  /\ UNCHANGED <<chefVars, lsVars, file, tsne_strict, loopVars>>

SuggestExperimentsCall == SuggestExperimentsUpTo(MaxLSCalls)

\* the flavor-pair runs: recipes without techniques over four ingredients
FlavorLists == {<<"lemon", "chicken">>, <<"chicken", "garlic">>,
                <<"garlic", "onion">>, <<"lemon", "garlic">>}
FeedbackRatings == {0, 10}

NextFlavor ==
  \/ \E ingredients \in FlavorLists, rating \in FeedbackRatings :
       EvaluateRecipeSuccessCall(ingredients, <<>>, rating)
  \/ SuggestExperimentsCall

SpecFlavor == InitComponent /\ [][NextFlavor]_vars

\* the accumulator entry of b under a, if any
Linked(a, b) == DHas(flavor_combinations, a) /\ DHas(DGet(flavor_combinations, a), b)
Score(a, b) == DGet(DGet(flavor_combinations, a), b)

\* C8: suggest_experiments proposes (A, C) via B with confidence
\* min(score(A,B), score(B,C))/10 exactly for the A, B, C with score(A,B) > 0,
\* score(B,C) > 0, C # A and no entry of C under A, once for each such triple
\* and nothing else; with lemon-chicken and chicken-garlic positive and
\* lemon-garlic unlinked it proposes (lemon, garlic).
C8_Proposals ==
  Last.op = "suggest_experiments" =>
    LET expected ==
          {[ingredients |-> <<a, c>>, reasoning |-> b,
            confidence |-> QDiv(QMin(Score(a, b), Score(b, c)), QInt(10))] :
             <<a, b, c>> \in
               {t \in Ingredients \X Ingredients \X Ingredients :
                  /\ Linked(t[1], t[2]) /\ QLt(QInt(0), Score(t[1], t[2]))
                  /\ Linked(t[2], t[3]) /\ QLt(QInt(0), Score(t[2], t[3]))
                  /\ t[3] # t[1]
                  /\ ~Linked(t[1], t[3])}}
    IN  /\ Range(experiments) = expected
        /\ Len(experiments) = Cardinality(expected)
        /\ (/\ Linked("lemon", "chicken") /\ QLt(QInt(0), Score("lemon", "chicken"))
            /\ Linked("chicken", "garlic") /\ QLt(QInt(0), Score("chicken", "garlic"))
            /\ ~Linked("lemon", "garlic"))
           => \E i \in 1..Len(experiments) :
                /\ experiments[i].ingredients = <<"lemon", "garlic">>
                /\ experiments[i].confidence =
                     QDiv(QMin(Score("lemon", "chicken"), Score("chicken", "garlic")),
                          QInt(10))

\* the three positive updates of the scenario, then suggest_experiments:
\* (lemon, garlic) is proposed via chicken with confidence 1/10, and the
\* directly linked (lemon, chicken) is not
C8_Witness ==
  /\ Len(calls) = 4
  /\ \A i \in 1..3 : calls[i].op = "evaluate_recipe_success" /\ calls[i].rating = 10
  /\ calls[1].ingredients = <<"lemon", "chicken">>
  /\ calls[2].ingredients = <<"chicken", "garlic">>
  /\ calls[3].ingredients = <<"garlic", "onion">>
  /\ calls[4].op = "suggest_experiments"
  /\ [ingredients |-> <<"lemon", "garlic">>, reasoning |-> "chicken",
      confidence |-> Q(1, 10)] \in Range(experiments)
  /\ \A i \in 1..Len(experiments) :
       experiments[i].ingredients # <<"lemon", "chicken">>
  /\ Len(experiments) = 4

\* the novelty runs: the same two ingredients in either order, with and
\* without a technique
NoveltyLists == {<<"lemon", "chicken">>, <<"chicken", "lemon">>}
NoveltyTechniques == {<<>>, <<"saute">>}

NextNovelty ==
  \E ingredients \in NoveltyLists, techniques \in NoveltyTechniques,
     rating \in FeedbackRatings :
    EvaluateRecipeSuccessCall(ingredients, techniques, rating)

SpecNovelty == InitComponent /\ [][NextNovelty]_vars

\* how many of the first n calls observed the (ingredient-set, technique-set)
\* pair of the n-th call
Observations(n) ==
  Cardinality({i \in 1..n :
                 /\ calls[i].op = "evaluate_recipe_success"
                 /\ Range(calls[i].ingredients) = Range(calls[n].ingredients)
                 /\ Range(calls[i].techniques) = Range(calls[n].techniques)})

\* C6: the first observation of an (ingredient-set, technique-set) pair is
\* novel and records 1 attempt; every later observation of the same pair, in
\* any ingredient order, is not novel and adds 1 to the pair's attempt counter.
C6_NovelOnce ==
  \A n \in 1..Len(calls) :
    calls[n].op = "evaluate_recipe_success" =>
      /\ calls[n].is_novel = (Observations(n) = 1)
      /\ (n = Len(calls) =>
            LET key == StrKey(calls[n].ingredients, calls[n].techniques)
            IN  /\ key \in DOMAIN known_recipes
                /\ known_recipes[key].times_attempted = Observations(n))

(***************************************************************************)
(* FlavorLearner and ChefAI.learn (core.py).                               *)
(***************************************************************************)
\* _update_flavor_space fits TSNE (default perplexity 30) to the vectors when
\* there are at least two; a scikit-learn that requires perplexity < n_samples
\* raises ValueError there, for every list of 2 to 30 ingredients
TsneRaises(ingredients, strict) == strict /\ Len(ingredients) > 1

\* update_flavor_knowledge(ingredients, rating):
\* <<flavor_profiles, successful_combinations, raised>>
UpdateFlavorKnowledge(profiles, combinations, ingredients, rating, strict) ==
  <<profiles \cup Range(ingredients),
    IF rating > 8 THEN Append(combinations, ingredients) ELSE combinations,
    TsneRaises(ingredients, strict)>>

\* the component updates of ChefAI.learn in the order of the code
LearnOrderComplexityFirst ==
  <<"complexity_manager", "ingredient_learner", "recipe_learner", "flavor_learner">>
LearnOrder ==
  <<"ingredient_learner", "recipe_learner", "flavor_learner", "complexity_manager">>

\* the outcome of learn, given the results of the four component updates:
\* an update that comes after the raising flavor update is not run
LearnResult(old, mc, gd, fl, cx) ==
  LET done == IF fl[3] THEN StepsRun(LearnOrder, "flavor_learner") ELSE LearnOrder
      ran(c) == c \in Range(done)
  IN  [compatibility_matrix |-> IF ran("ingredient_learner") THEN mc[1]
                                ELSE old.compatibility_matrix,
       confidence_scores |-> IF ran("ingredient_learner") THEN mc[2]
                             ELSE old.confidence_scores,
       technique_graph |-> IF ran("recipe_learner") THEN gd[1]
                           ELSE old.technique_graph,
       technique_difficulties |-> IF ran("recipe_learner") THEN gd[2]
                                  ELSE old.technique_difficulties,
       flavor_profiles |-> fl[1],
       successful_combinations |-> fl[2],
       current_level |-> IF ran("complexity_manager") THEN cx[1]
                         ELSE old.current_level,
       progression_history |-> IF ran("complexity_manager") THEN cx[2]
                               ELSE old.progression_history,
       raised |-> fl[3],
       order |-> done]

\* ChefAI.learn(recipe_data) on the state `old` of the four learners
Learn(old, ingredients, techniques, rating, timestamp, strict) ==
  LearnResult(old,
    LearnFromFeedback(<<old.compatibility_matrix, old.confidence_scores>>,
                      ingredients, rating),
    LearnTechniqueSequence(<<old.technique_graph, old.technique_difficulties>>,
                           techniques, rating),
    UpdateFlavorKnowledge(old.flavor_profiles, old.successful_combinations,
                          ingredients, rating, strict),
    UpdateComplexity(old.current_level, old.progression_history, rating,
                     Len(techniques), timestamp))

ChefState ==
  [compatibility_matrix |-> compatibility_matrix,
   confidence_scores |-> confidence_scores,
   technique_graph |-> technique_graph,
   technique_difficulties |-> technique_difficulties,
   flavor_profiles |-> flavor_profiles,
   successful_combinations |-> successful_combinations,
   current_level |-> current_level,
   progression_history |-> progression_history]

LSState ==
  [categories |-> categories, known_recipes |-> known_recipes,
   technique_proficiency |-> technique_proficiency,
   flavor_combinations |-> flavor_combinations]

(***************************************************************************)
(* LearningSystem.save_state and load_state: the snapshot is one JSON      *)
(* document.  json.dump writes the categories under their enum values, the *)
(* mastery's innovation set as a list, and every number so that json.load  *)
(* reads the same number back; dict order is kept.                         *)
(* mastery.learning_history, mastery.successful_innovations,               *)
(* ingredient_relationships, innovation_attempts and feedback_history are  *)
(* never written by any method and stay empty.                             *)
(***************************************************************************)
LoadOrder == <<"mastery", "known_recipes", "ingredient_relationships",
               "technique_proficiency", "flavor_combinations",
               "innovation_attempts", "feedback_history">>

SaveState(cats, kr, tp, fc) ==
  [exists |-> TRUE, parses |-> TRUE, has |-> Range(LoadOrder),
   mastery |-> [categories |-> [v \in CategoryValues |->
                                  cats[CHOOSE c \in SkillCategory : CategoryValue[c] = v]],
                learning_history |-> <<>>,
                successful_innovations |-> <<>>],
   known_recipes |-> kr,
   ingredient_relationships |-> EmptyMap,
   technique_proficiency |-> tp,
   flavor_combinations |-> fc,
   innovation_attempts |-> <<>>,
   feedback_history |-> <<>>]

\* load_state(filepath) into a LearningSystem just constructed.  open and
\* json.load raise on a missing file and on text that is no JSON document;
\* state["..."] raises KeyError on the first section the document lacks.  All
\* of it is inside one try block whose handler only prints, so the sections
\* assigned before the exception stay restored and the others keep the values
\* of the constructor.
Restored(f) ==
  IF ~f.exists \/ ~f.parses THEN {}
  ELSE {LoadOrder[i] : i \in {j \in 1..Len(LoadOrder) :
                                 \A k \in 1..j : LoadOrder[k] \in f.has}}
LoadFails(f) == Restored(f) # Range(LoadOrder)
LoadState(f) ==
  [categories |->
     IF "mastery" \in Restored(f)
     THEN [c \in {k \in SkillCategory :
                    CategoryValue[k] \in DOMAIN f.mastery.categories} |->
             f.mastery.categories[CategoryValue[c]]]
     ELSE [c \in SkillCategory |-> QInt(0)],
   known_recipes |->
     IF "known_recipes" \in Restored(f) THEN f.known_recipes ELSE EmptyMap,
   technique_proficiency |->
     IF "technique_proficiency" \in Restored(f) THEN f.technique_proficiency
     ELSE EmptyMap,
   flavor_combinations |->
     IF "flavor_combinations" \in Restored(f) THEN f.flavor_combinations
     ELSE <<>>,
   load_failed |-> LoadFails(f)]

\* what the queries of the five components return
View ==
  [mastery |-> [v \in CategoryValues |->
                  categories[CHOOSE c \in SkillCategory : CategoryValue[c] = v]],
   technique_proficiency |-> technique_proficiency,
   compatibility |-> <<compatibility_matrix, confidence_scores>>,
   technique_graph |-> <<technique_graph, technique_difficulties>>,
   flavor |-> <<flavor_combinations, known_recipes,
                SuggestExperiments(flavor_combinations)>>,
   complexity |-> <<current_level, progression_history>>]

(***************************************************************************)
(* The two services: POST /api/learn of backend/api/main.py (ChefAI) and   *)
(* of backend/app/main.py (LearningSystem, which saves its state after     *)
(* every feedback), a direct save_state, and a fresh engine: both objects  *)
(* are constructed anew and the snapshot file is loaded.                   *)
(***************************************************************************)
MaxEvents == 3
ApiLists == {<<"lemon">>, <<"lemon", "chicken">>}
ApiTechniques == {<<>>, <<"saute", "sear">>}
ApiRatings == {5, 9}
AppLists == {<<"lemon", "chicken">>}
AppTechniques == {<<"saute">>}

\* learn_from_feedback of backend/api/main.py with a rating given: an
\* exception of learn becomes the status 500
ApiLearn(ingredients, techniques, rating) ==
  /\ Len(calls) < MaxEvents
  /\ \E r \in {Learn(ChefState, ingredients, techniques, rating, Now, tsne_strict)} :
       /\ compatibility_matrix' = r.compatibility_matrix
       /\ confidence_scores' = r.confidence_scores
       /\ technique_graph' = r.technique_graph
       /\ technique_difficulties' = r.technique_difficulties
       /\ flavor_profiles' = r.flavor_profiles
       /\ successful_combinations' = r.successful_combinations
       /\ current_level' = r.current_level
       /\ progression_history' = r.progression_history
       /\ calls' = Append(calls, [op |-> "learn", ingredients |-> ingredients,
                                  techniques |-> techniques, rating |-> rating,
                                  raised |-> r.raised, order |-> r.order,
                                  status |-> IF r.raised THEN 500 ELSE 200])
  /\ UNCHANGED <<lsVars, file, tsne_strict, experiments, loopVars>>

\* What a save_state call does to the snapshot file: open(filepath, 'w')
\* may fail and leave the file as it was; once the file is open it is empty,
\* and a write that fails leaves a text that is no JSON document.
SaveOutcomes == {"saved", "open_failed", "write_failed"}
PartialFile == [exists |-> TRUE, parses |-> FALSE]
FileAfterSave(old_file, document, outcome) ==
  CASE outcome = "saved" -> document
    [] outcome = "open_failed" -> old_file
    [] outcome = "write_failed" -> PartialFile

\* the learner state the handler leaves when save_state raised: the handler
\* has no except clause and undoes nothing
RolledBack(before, after) == before
AfterFailedSave(before, after) == after

\* learn_from_feedback of backend/app/main.py: evaluate_recipe_success, then
\* save_state unless the evaluation raised
AppLearn(ingredients, techniques, rating, outcome) ==
  /\ Len(calls) < MaxEvents
  /\ \E r \in {EvaluateRecipeSuccess(categories, known_recipes, technique_proficiency,
                                    flavor_combinations, ingredients, techniques,
                                    rating, Now)} :
       /\ \E after \in {IF ~r.raised /\ outcome # "saved"
                        THEN AfterFailedSave(LSState, r) ELSE r} :
            /\ categories' = after.categories
            /\ known_recipes' = after.known_recipes
            /\ technique_proficiency' = after.technique_proficiency
            /\ flavor_combinations' = after.flavor_combinations
       /\ file' = IF r.raised THEN file
                  ELSE FileAfterSave(file,
                         SaveState(r.categories, r.known_recipes,
                                   r.technique_proficiency, r.flavor_combinations),
                         outcome)
       /\ calls' = Append(calls, [op |-> "evaluate_recipe_success",
                                  ingredients |-> ingredients,
                                  techniques |-> techniques, rating |-> rating,
                                  is_novel |-> r.is_novel, raised |-> r.raised,
                                  order |-> r.order,
                                  saved |-> ~r.raised /\ outcome = "saved",
                                  save_failed |-> ~r.raised /\ outcome # "saved",
                                  status |-> IF r.raised \/ outcome # "saved"
                                             THEN 500 ELSE 200])
  /\ UNCHANGED <<chefVars, tsne_strict, experiments, loopVars>>

SaveStateCall ==
  /\ Len(calls) < MaxEvents
  /\ file' = SaveState(categories, known_recipes, technique_proficiency,
                       flavor_combinations)
  /\ calls' = Append(calls, [op |-> "save_state", saved |-> TRUE])
  /\ UNCHANGED <<chefVars, lsVars, tsne_strict, experiments, loopVars>>

FreshEngine ==
  /\ Len(calls) < MaxEvents
  /\ compatibility_matrix' = EmptyMap
  /\ confidence_scores' = EmptyMap
  /\ technique_graph' = [nodes |-> {}, weight |-> EmptyMap]
  /\ technique_difficulties' = EmptyMap
  /\ flavor_profiles' = {}
  /\ successful_combinations' = <<>>
  /\ current_level' = 0
  /\ progression_history' = <<>>
  /\ \E r \in {LoadState(file)} :
       /\ categories' = r.categories
       /\ known_recipes' = r.known_recipes
       /\ technique_proficiency' = r.technique_proficiency
       /\ flavor_combinations' = r.flavor_combinations
       /\ calls' = Append(calls, [op |-> "fresh_engine", saved |-> FALSE,
                                  load_failed |-> r.load_failed])
  /\ UNCHANGED <<file, tsne_strict, experiments, loopVars>>

Next ==
  \/ \E ingredients \in ApiLists, techniques \in ApiTechniques, rating \in ApiRatings :
       ApiLearn(ingredients, techniques, rating)
  \/ \E ingredients \in AppLists, techniques \in AppTechniques,
        rating \in FeedbackRatings :
       AppLearn(ingredients, techniques, rating, "saved")
  \/ SaveStateCall
  \/ FreshEngine

Spec == Init /\ [][Next]_vars

\* C9 (as claimed): saving the state and restoring it into a fresh engine
\* leaves the query outputs of all five components as they were before.
C9_RoundTripAllComponents ==
  [][(/\ Len(calls) > 0
      /\ Last.op \in {"save_state", "evaluate_recipe_success"}
      /\ Last.saved
      /\ Len(calls') = Len(calls) + 1
      /\ calls'[Len(calls')].op = "fresh_engine")
     => View' = View]_vars

\* C10 (as claimed): in every learn call the complexity update comes first,
\* then the compatibility, technique-sequence and flavor updates.
C10_ComplexityFirst ==
  \A n \in 1..Len(calls) :
    calls[n].op = "learn" =>
      /\ ~calls[n].raised => "complexity_manager" \in Range(calls[n].order)
      /\ "complexity_manager" \in Range(calls[n].order) =>
           /\ IndexOf(calls[n].order, "complexity_manager")
                < IndexOf(calls[n].order, "ingredient_learner")
           /\ IndexOf(calls[n].order, "ingredient_learner")
                < IndexOf(calls[n].order, "recipe_learner")
           /\ IndexOf(calls[n].order, "recipe_learner")
                < IndexOf(calls[n].order, "flavor_learner")

\* C10 (amended): ChefAI.learn runs the compatibility, technique-sequence,
\* flavor and complexity updates in this order, the complexity update last
\* and not at all when the flavor update raises, so that its log entry is
\* then missing while the compatibility entry is there;
\* evaluate_recipe_success computes the complexity score first and runs the
\* technique, flavor-pair and novelty steps before the mastery update.
C10_CodeOrder ==
  /\ \A n \in 1..Len(calls) :
       /\ calls[n].op = "learn" =>
            calls[n].order =
              IF calls[n].raised
              THEN <<"ingredient_learner", "recipe_learner", "flavor_learner">>
              ELSE <<"ingredient_learner", "recipe_learner", "flavor_learner",
                     "complexity_manager">>
       /\ calls[n].op = "evaluate_recipe_success" =>
            calls[n].order =
              IF calls[n].raised
              THEN <<"complexity_score", "technique_proficiency", "flavor_pairing",
                     "novelty">>
              ELSE <<"complexity_score", "technique_proficiency", "flavor_pairing",
                     "novelty", "mastery">>
  /\ Last.op = "learn" =>
       /\ Last.raised <=>
            \A i \in 1..Len(progression_history) :
              progression_history[i].timestamp # Len(calls)
       /\ Len(Last.ingredients) > 1 =>
            MHas(confidence_scores, Last.ingredients[1], Last.ingredients[2])

\* a learn call whose flavor update raised: the pair is in the compatibility
\* matrix, the accepted technique edge is in the graph, the progression log
\* has no entry
C10_Witness ==
  /\ Len(calls) = 1
  /\ Last.op = "learn" /\ Last.raised /\ Last.rating = 9
  /\ Last.techniques = <<"saute", "sear">>
  /\ confidence_scores["lemon"]["chicken"] = 2
  /\ HasEdge(technique_graph, <<"saute", "sear">>)
  /\ progression_history = <<>>
  /\ current_level = 0

(***************************************************************************)
(* Concurrent requests.  Every handler of backend/api/main.py and of       *)
(* backend/app/main.py is an `async def` coroutine; uvicorn runs each      *)
(* application on one event loop, which runs a coroutine from its start to *)
(* its next await or to its end before it picks another one.  A task is a  *)
(* request the server has accepted; its program is the sequence of the     *)
(* state changes of its handler, and pc is the step it runs next.          *)
(***************************************************************************)
MaxTasks == 3

\* the steps at which a handler awaits: no handler body contains an await
AwaitAtEveryStep ==
  {"api_learn", "get_compatibility", "app_learn"}
    \X {"ingredient_learner", "recipe_learner", "flavor_learner",
        "complexity_manager", "respond", "technique_proficiency",
        "flavor_forward", "flavor_backward", "novelty", "save_state"}
AwaitPoints == {}

\* the steps one component of ChefAI.learn contributes: learn_from_feedback
\* stores one entry per position of its double loop
ComponentSteps(component, task) ==
  IF component = "ingredient_learner"
  THEN [k \in 1..(Len(task.ingredients) * Len(task.ingredients)) |->
          [name |-> component, p |-> PairPositions(Len(task.ingredients))[k]]]
  ELSE <<[name |-> component, p |-> <<0, 0>>]>>

\* POST /api/learn of backend/api/main.py: ChefAI.learn
ApiLearnProgram(task) ==
  Flatten([i \in 1..Len(LearnOrder) |-> ComponentSteps(LearnOrder[i], task)])

\* POST /api/learn of backend/app/main.py: evaluate_recipe_success, whose
\* _update_flavor_pairing adds the change to [ing1][ing2] and then to
\* [ing2][ing1], and then save_state
AppLearnProgram(task) ==
  <<[name |-> "technique_proficiency", p |-> <<0, 0>>]>>
  \o Flatten([k \in 1..Len(ForwardPairs(Len(task.ingredients))) |->
                <<[name |-> "flavor_forward",
                   p |-> ForwardPairs(Len(task.ingredients))[k]],
                  [name |-> "flavor_backward",
                   p |-> ForwardPairs(Len(task.ingredients))[k]]>>])
  \o <<[name |-> "novelty", p |-> <<0, 0>>],
       [name |-> "save_state", p |-> <<0, 0>>]>>

Program(task) ==
  CASE task.op = "api_learn" -> ApiLearnProgram(task)
    [] task.op = "get_compatibility" -> <<[name |-> "respond", p |-> <<0, 0>>]>>
    [] task.op = "app_learn" -> AppLearnProgram(task)

Finished(task) == task.pc > Len(Program(task))
\* a handler that has run a step and has steps left
Mid(task) == task.pc > 1 /\ ~Finished(task)
MidOthers(t) ==
  {u \in 1..Len(tasks) : u # t /\ tasks[u].app = tasks[t].app /\ Mid(tasks[u])}

\* the event loop of the task's application is free, or the task holds it
Runnable(t) ==
  /\ t \in 1..Len(tasks)
  /\ ~Finished(tasks[t])
  /\ running[tasks[t].app] \in {0, t}

\* the task has run its step: it goes on to the next one, or ends with the
\* status 500 when the step raised; it gives the event loop up at its end
\* and at an await
Advance(t, step, raised) ==
  LET last == tasks[t].pc = Len(Program(tasks[t])) IN
  /\ tasks' = [tasks EXCEPT
                 ![t].pc = IF raised THEN Len(Program(tasks[t])) + 1 ELSE @ + 1,
                 ![t].status = IF raised THEN 500 ELSE IF last THEN 200 ELSE @]
  /\ running' = [running EXCEPT
                   ![tasks[t].app] =
                     IF raised \/ last \/ <<tasks[t].op, step.name>> \in AwaitPoints
                     THEN 0 ELSE t]

\* the server accepts a request
Arrive(task) ==
  /\ Len(tasks) < MaxTasks
  /\ tasks' = Append(tasks, task)
  /\ UNCHANGED <<chefVars, lsVars, file, tsne_strict, calls, experiments,
                 running, observed>>

\* one step of ChefAI.learn on the state `old`: <<state, raised>>
LearnStep(old, step, task, timestamp, strict) ==
  CASE step.name = "ingredient_learner" ->
         LET mc == PairUpdate(<<old.compatibility_matrix, old.confidence_scores>>,
                              task.ingredients[step.p[1]],
                              task.ingredients[step.p[2]], task.rating)
         IN  <<[old EXCEPT !.compatibility_matrix = mc[1],
                           !.confidence_scores = mc[2]], FALSE>>
    [] step.name = "recipe_learner" ->
         LET gd == LearnTechniqueSequence(<<old.technique_graph,
                                            old.technique_difficulties>>,
                                          task.techniques, task.rating)
         IN  <<[old EXCEPT !.technique_graph = gd[1],
                           !.technique_difficulties = gd[2]], FALSE>>
    [] step.name = "flavor_learner" ->
         LET fl == UpdateFlavorKnowledge(old.flavor_profiles,
                                         old.successful_combinations,
                                         task.ingredients, task.rating, strict)
         IN  <<[old EXCEPT !.flavor_profiles = fl[1],
                           !.successful_combinations = fl[2]], fl[3]>>
    [] step.name = "complexity_manager" ->
         LET cx == UpdateComplexity(old.current_level, old.progression_history,
                                    task.rating, Len(task.techniques), timestamp)
         IN  <<[old EXCEPT !.current_level = cx[1],
                           !.progression_history = cx[2]], FALSE>>

ApiLearnStep(t) ==
  /\ Runnable(t)
  /\ tasks[t].op = "api_learn"
  /\ \E step \in {Program(tasks[t])[tasks[t].pc]} :
       \E r \in {LearnStep(ChefState, step, tasks[t], t, tsne_strict)} :
         /\ compatibility_matrix' = r[1].compatibility_matrix
         /\ confidence_scores' = r[1].confidence_scores
         /\ technique_graph' = r[1].technique_graph
         /\ technique_difficulties' = r[1].technique_difficulties
         /\ flavor_profiles' = r[1].flavor_profiles
         /\ successful_combinations' = r[1].successful_combinations
         /\ current_level' = r[1].current_level
         /\ progression_history' = r[1].progression_history
         /\ Advance(t, step, r[2])
  /\ UNCHANGED <<lsVars, file, tsne_strict, calls, experiments, observed>>

\* every entry of the compatibility matrix has its mirror entry with the same
\* score and confidence
CompatibilitySymmetric(mc) ==
  \A a \in DOMAIN mc[1] : \A b \in DOMAIN mc[1][a] :
    /\ MHas(mc[1], b, a) /\ mc[1][b][a] = mc[1][a][b]
    /\ MHas(mc[2], a, b) /\ MHas(mc[2], b, a) /\ mc[2][b][a] = mc[2][a][b]

\* every entry of the flavor accumulator has its mirror entry with the same score
FlavorSymmetric(fc) ==
  \A a \in DKeys(fc) : \A b \in DKeys(DGet(fc, a)) :
    /\ DHas(fc, b) /\ DHas(DGet(fc, b), a)
    /\ DGet(DGet(fc, b), a) = DGet(DGet(fc, a), b)

\* get_compatibility(ingredient) of backend/api/main.py on
\* mc = <<compatibility_matrix, confidence_scores>>: indexing a defaultdict
\* with a key it does not hold stores the default, an empty row, under the key.
\* <<compatibility_matrix, confidence_scores, response>>
ReadRow(m, r) == IF r \in DOMAIN m THEN m ELSE MapPut(m, r, EmptyMap)
GetCompatibility(mc, ingredient) ==
  <<ReadRow(mc[1], ingredient), ReadRow(mc[2], ingredient),
    [status |-> 200, ingredient |-> ingredient,
     compatibility_scores |-> MRow(mc[1], ingredient),
     confidence_scores |-> MRow(mc[2], ingredient)]>>

GetCompatibilityStep(t) ==
  /\ Runnable(t)
  /\ tasks[t].op = "get_compatibility"
  /\ \E r \in {GetCompatibility(<<compatibility_matrix, confidence_scores>>,
                                tasks[t].ingredient)} :
       /\ compatibility_matrix' = r[1]
       /\ confidence_scores' = r[2]
       /\ observed' = Append(observed,
            [task |-> t, op |-> "get_compatibility", response |-> r[3],
             symmetric |-> CompatibilitySymmetric(<<compatibility_matrix,
                                                    confidence_scores>>),
             mid |-> MidOthers(t)])
  /\ Advance(t, Program(tasks[t])[tasks[t].pc], FALSE)
  /\ UNCHANGED <<technique_graph, technique_difficulties, flavor_profiles,
                 successful_combinations, current_level, progression_history,
                 lsVars, file, tsne_strict, calls, experiments>>

\* one step of evaluate_recipe_success on the state `old`: <<state, raised>>.
\* The step "novelty" is the innovation block with the mastery update that
\* follows it.
EvaluateStep(old, step, task, timestamp, complexity_score) ==
  CASE step.name = "technique_proficiency" ->
         <<[old EXCEPT !.technique_proficiency =
              EvaluateTechniques(old.technique_proficiency, task.techniques,
                                 task.rating, complexity_score)[1]], FALSE>>
    [] step.name = "flavor_forward" ->
         LET a == task.ingredients[step.p[1]]
             b == task.ingredients[step.p[2]]
         IN  <<[old EXCEPT !.flavor_combinations =
                  AddChange(EnsureEntry(EnsureEntry(EnsureRow(EnsureRow(@, a), b),
                                                    a, b), b, a),
                            a, b, FlavorChange(task.rating))], FALSE>>
    [] step.name = "flavor_backward" ->
         <<[old EXCEPT !.flavor_combinations =
              AddChange(@, task.ingredients[step.p[2]],
                        task.ingredients[step.p[1]], FlavorChange(task.rating))],
           FALSE>>
    [] step.name = "novelty" ->
         LET r == EvaluateResult(old.categories, task.rating, complexity_score,
                    <<old.technique_proficiency,
                      EvaluateTechniques(EmptyMap, task.techniques, task.rating,
                                         complexity_score)[2]>>,
                    old.flavor_combinations,
                    IsNovelCombination(old.known_recipes, task.ingredients,
                                       task.techniques, timestamp))
         IN  <<[old EXCEPT !.categories = r.categories,
                           !.known_recipes = r.known_recipes], r.raised>>
    [] step.name = "save_state" -> <<old, FALSE>>

AppLearnStep(t) ==
  /\ Runnable(t)
  /\ tasks[t].op = "app_learn"
  /\ \E step \in {Program(tasks[t])[tasks[t].pc]} :
       \E r \in {EvaluateStep(LSState, step, tasks[t], t,
                              CalculateComplexity(Len(tasks[t].ingredients),
                                                  Len(tasks[t].techniques), 0, 0))} :
         /\ categories' = r[1].categories
         /\ known_recipes' = r[1].known_recipes
         /\ technique_proficiency' = r[1].technique_proficiency
         /\ flavor_combinations' = r[1].flavor_combinations
         /\ IF step.name = "save_state"
            THEN /\ file' = SaveState(categories, known_recipes,
                                      technique_proficiency, flavor_combinations)
                 /\ observed' = Append(observed,
                      [task |-> t, op |-> "save_state",
                       symmetric |-> FlavorSymmetric(flavor_combinations),
                       mid |-> MidOthers(t)])
            ELSE UNCHANGED <<file, observed>>
         /\ Advance(t, step, r[2])
  /\ UNCHANGED <<chefVars, tsne_strict, calls, experiments>>

ApiLearnTasks ==
  {[app |-> "api", op |-> "api_learn", ingredients |-> <<"lemon", "chicken">>,
    techniques |-> <<>>, rating |-> 9, pc |-> 1, status |-> 0]}
GetCompatibilityTasks ==
  {[app |-> "api", op |-> "get_compatibility", ingredient |-> "lemon",
    pc |-> 1, status |-> 0]}
AppLearnTasks ==
  {[app |-> "app", op |-> "app_learn", ingredients |-> <<"lemon", "chicken">>,
    techniques |-> <<"saute">>, rating |-> 0, pc |-> 1, status |-> 0]}

NextConcurrent ==
  \/ \E task \in ApiLearnTasks \cup GetCompatibilityTasks \cup AppLearnTasks :
       Arrive(task)
  \/ \E t \in 1..MaxTasks : ApiLearnStep(t)
  \/ \E t \in 1..MaxTasks : GetCompatibilityStep(t)
  \/ \E t \in 1..MaxTasks : AppLearnStep(t)

SpecConcurrent == Init /\ [][NextConcurrent]_vars

\* C11: with concurrent learn requests, queries and snapshot saves, no two
\* handlers of one service are in the middle of their updates at the same
\* time, and every query and every snapshot save runs while no update is in
\* progress and sees each (A,B) entry with its equal (B,A) entry.
C11_UpdatesAtomic ==
  /\ \A t, u \in 1..Len(tasks) :
       (t # u /\ tasks[t].app = tasks[u].app) => ~(Mid(tasks[t]) /\ Mid(tasks[u]))
  /\ \A i \in 1..Len(observed) : observed[i].symmetric /\ observed[i].mid = {}

\* a learn request has stored (lemon, chicken) and not yet (chicken, lemon)
\* while a compatibility query and a second learn request wait for the event
\* loop
C11_Witness ==
  /\ Len(tasks) = 3
  /\ tasks[1].op = "api_learn" /\ tasks[1].pc = 3
  /\ tasks[2].op = "get_compatibility" /\ tasks[2].pc = 1
  /\ tasks[3].op = "api_learn" /\ tasks[3].pc = 1
  /\ MHas(compatibility_matrix, "lemon", "chicken")
  /\ ~MHas(compatibility_matrix, "chicken", "lemon")
  /\ running["api"] = 1

(***************************************************************************)
(* The requests the two services answer besides well-formed feedback: a    *)
(* feedback without rating or without ingredients, the compatibility       *)
(* query, the learning-stats query, a save that fails, and a snapshot file *)
(* that lacks a section when the engine starts.                            *)
(***************************************************************************)
\* learn_from_feedback of backend/api/main.py with rating None: HTTP 400
\* before anything is touched
ApiLearnWithoutRating(ingredients, techniques) ==
  /\ Len(calls) < MaxEvents
  /\ calls' = Append(calls, [op |-> "learn_without_rating",
                             ingredients |-> ingredients,
                             techniques |-> techniques, status |-> 400])
  /\ UNCHANGED <<chefVars, lsVars, file, tsne_strict, experiments, loopVars>>

\* get_compatibility(ingredient) of backend/api/main.py
GetCompatibilityCall(ingredient) ==
  /\ Len(calls) < MaxEvents
  /\ \E r \in {GetCompatibility(<<compatibility_matrix, confidence_scores>>,
                                ingredient)} :
       /\ compatibility_matrix' = r[1]
       /\ confidence_scores' = r[2]
       /\ calls' = Append(calls, [op |-> "get_compatibility",
                                  ingredient |-> ingredient,
                                  status |-> r[3].status, response |-> r[3]])
  /\ UNCHANGED <<technique_graph, technique_difficulties, flavor_profiles,
                 successful_combinations, current_level, progression_history,
                 lsVars, file, tsne_strict, experiments, loopVars>>

RECURSIVE SumOver(_, _)
SumOver(f, keys) ==
  IF keys = {} THEN QInt(0)
  ELSE LET k == CHOOSE x \in keys : TRUE
       IN  QAdd(f[k], SumOver(f, keys \ {k}))

\* get_learning_status(): the dict display is evaluated entry by entry, and
\* the entry "successful_innovations" reads self.successful_innovations
GetLearningStatus(cats, kr, tp, fc) ==
  IF "successful_innovations" \notin LearningSystemAttributes
  THEN [raised |-> TRUE]
  ELSE [raised |-> FALSE,
        overall_mastery |-> QDiv(SumOver(cats, DOMAIN cats),
                                 QInt(Cardinality(DOMAIN cats))),
        category_mastery |-> [v \in CategoryValues |->
                                cats[CHOOSE c \in SkillCategory : CategoryValue[c] = v]],
        technique_proficiency |-> tp,
        known_combinations |-> Cardinality(DOMAIN kr),
        successful_innovations |-> 0,
        flavor_expertise |->
          [i \in 1..Len(fc) |->
             [k |-> fc[i].k,
              v |-> Len(SelectSeq(fc[i].v, LAMBDA p : QLt(QInt(0), p.v)))]]]

\* get_learning_stats of backend/app/main.py
GetLearningStatsCall ==
  /\ Len(calls) < MaxEvents
  /\ \E r \in {GetLearningStatus(categories, known_recipes, technique_proficiency,
                                 flavor_combinations)} :
       calls' = Append(calls, [op |-> "get_learning_status", raised |-> r.raised,
                               status |-> IF r.raised THEN 500 ELSE 200,
                               response |-> r])
  /\ UNCHANGED <<chefVars, lsVars, file, tsne_strict, experiments, loopVars>>

\* learning_state.json is replaced by a document without one of its sections
\* (written by hand or by another version) before the engine starts
SnapshotWithout(section) ==
  /\ Len(calls) < MaxEvents
  /\ file.exists /\ file.parses /\ section \in file.has
  /\ file' = [file EXCEPT !.has = @ \ {section}]
  /\ calls' = Append(calls, [op |-> "snapshot_without", section |-> section])
  /\ UNCHANGED <<chefVars, lsVars, tsne_strict, experiments, loopVars>>

ServiceLists == {<<>>, <<"lemon", "chicken">>}
ServiceTechniques == {<<"saute", "sear">>}
ServiceRatings == {9}
QueriedIngredients == {"lemon", "garlic"}
DroppedSections == {"technique_proficiency"}

NextService ==
  \/ \E ingredients \in ServiceLists, techniques \in ServiceTechniques,
        rating \in ServiceRatings :
       ApiLearn(ingredients, techniques, rating)
  \/ \E ingredients \in AppLists, techniques \in ServiceTechniques :
       ApiLearnWithoutRating(ingredients, techniques)
  \/ \E ingredient \in QueriedIngredients : GetCompatibilityCall(ingredient)
  \/ GetLearningStatsCall
  \/ \E ingredients \in AppLists, techniques \in AppTechniques,
        rating \in FeedbackRatings, outcome \in SaveOutcomes :
       AppLearn(ingredients, techniques, rating, outcome)
  \/ \E techniques \in AppTechniques : AppLearn(<<>>, techniques, 0, "saved")
  \/ \E section \in DroppedSections : SnapshotWithout(section)
  \/ FreshEngine

SpecService == Init /\ [][NextService]_vars

\* the call this step has made
NewCall == calls'[Len(calls')]
Called(ops) == Len(calls') = Len(calls) + 1 /\ NewCall.op \in ops

\* C12 (as claimed): every evaluate_recipe_success call on a well-formed
\* feedback event, the perfect rating included, completes without raising.
C12_LearnCompletes ==
  \A n \in 1..Len(calls) :
    (calls[n].op = "evaluate_recipe_success" /\ calls[n].ingredients # <<>>)
      => ~calls[n].raised /\ calls[n].order = EvaluateOrder

\* C13 (as claimed): in every reachable state get_learning_status completes
\* without raising and returns the six entries of the status.
C13_StatsCompletes ==
  \A n \in 1..Len(calls) :
    calls[n].op = "get_learning_status"
      => /\ ~calls[n].raised
         /\ {"overall_mastery", "category_mastery", "technique_proficiency",
             "known_combinations", "successful_innovations", "flavor_expertise"}
              \subseteq DOMAIN calls[n].response

\* C14 (as claimed): a feedback event without rating or with an empty
\* ingredient list is answered with an error and leaves the state of every
\* learner, the progression log included, unchanged.
C14_MalformedRejected ==
  [][(/\ Called({"learn", "learn_without_rating", "evaluate_recipe_success"})
      /\ (NewCall.op = "learn_without_rating" \/ NewCall.ingredients = <<>>))
     => /\ NewCall.status # 200
        /\ chefVars' = chefVars
        /\ lsVars' = lsVars]_vars

\* C15 (as claimed): a compatibility query answers with status 200 and leaves
\* the compatibility matrix and the confidence map as they were.
C15_QueryReadOnly ==
  [][Called({"get_compatibility"})
     => /\ NewCall.status = 200
        /\ compatibility_matrix' = compatibility_matrix
        /\ confidence_scores' = confidence_scores]_vars

\* C16: when the save_state that follows a feedback event fails, the learner
\* state is the one evaluate_recipe_success has left: the event's update is
\* in memory and nothing is rolled back.
C16_UpdateKeptOnFailedSave ==
  [][(Called({"evaluate_recipe_success"}) /\ NewCall.save_failed)
     => LET r == EvaluateRecipeSuccess(categories, known_recipes,
                                       technique_proficiency, flavor_combinations,
                                       NewCall.ingredients, NewCall.techniques,
                                       NewCall.rating, Len(calls'))
        IN  /\ categories' = r.categories
            /\ known_recipes' = r.known_recipes
            /\ technique_proficiency' = r.technique_proficiency
            /\ flavor_combinations' = r.flavor_combinations
            /\ StrKey(NewCall.ingredients, NewCall.techniques)
                 \in DOMAIN known_recipes'
            /\ NewCall.status = 500]_vars

\* the write of the snapshot failed after a feedback with rating 0: the file
\* is no JSON document, the novelty record of the event and its flavor-pair
\* penalty are in memory
C16_Witness ==
  /\ Len(calls) = 1
  /\ Last.op = "evaluate_recipe_success" /\ Last.save_failed /\ Last.rating = 0
  /\ file = PartialFile
  /\ known_recipes[StrKey(<<"lemon", "chicken">>, <<"saute">>)].first_attempted = 1
  /\ DGet(DGet(flavor_combinations, "lemon"), "chicken") = Q(-1, 2)
  /\ DGet(DGet(flavor_combinations, "chicken"), "lemon") = Q(-1, 2)

\* C17 (as claimed): after a load that failed, every component of the engine
\* has its initial value.
C17_FailedLoadGivesDefaults ==
  (Last.op = "fresh_engine" /\ Last.load_failed)
    => /\ categories = [c \in SkillCategory |-> QInt(0)]
       /\ known_recipes = EmptyMap
       /\ technique_proficiency = EmptyMap
       /\ flavor_combinations = <<>>

\* C18 (as claimed): a learn call in which a component update raises has
\* changed the state of no component.
C18_AllOrNothing ==
  [][(Called({"learn", "evaluate_recipe_success"}) /\ NewCall.raised)
     => chefVars' = chefVars /\ lsVars' = lsVars]_vars

\* C19: _update_mastery_levels sets each of the 8 categories to
\* clamp(current + raw_delta * complexity * m * 0.1 * (1 - current), 0, 1)
\* with m = 1 for the rating 1 and m = -1/2 for every other rating; a category
\* with raw delta 0 keeps its value.
C19_MasteryFormula ==
  [][Called({"_update_mastery_levels"})
     => \A c \in SkillCategory :
          LET current == categories[c]
              raw_delta == NewCall.changes[CategoryValue[c]]
              mult == IF NewCall.rating = 10 THEN QInt(1) ELSE Q(-1, 2)
              x == QAdd(current,
                        QMul(QMul(QMul(QMul(raw_delta, NewCall.complexity), mult),
                                  Q(1, 10)),
                             QSub(QInt(1), current)))
          IN  /\ categories'[c] = IF QLt(x, QInt(0)) THEN QInt(0)
                                  ELSE IF QLt(QInt(1), x) THEN QInt(1) ELSE x
              /\ raw_delta = QInt(0) => categories'[c] = current]_vars

\* technique_mastery rose to 1/4 on the rating 1 and fell by
\* 5 * 1/2 * 1/2 * 1/10 * 3/4 = 3/32 on the partial rating 0.5; the categories
\* with raw delta 0 are still 0
C19_Witness ==
  /\ Len(calls) = 2
  /\ calls[1].changes["technique_mastery"] = QInt(5)
  /\ calls[1].complexity = Q(1, 2) /\ calls[1].rating = 10
  /\ calls[2].changes["technique_mastery"] = QInt(5)
  /\ calls[2].complexity = Q(1, 2) /\ calls[2].rating = 5
  /\ categories["TECHNIQUE_MASTERY"] = Q(5, 32)
  /\ \A c \in SkillCategory \ {"TECHNIQUE_MASTERY"} : categories[c] = QInt(0)

(***************************************************************************)
(* update_complexity around its two thresholds.                            *)
(***************************************************************************)
MaxThresholdCalls == 4
ThresholdRatings == {2, 3, 8, 9}
ThresholdTechniqueCounts == {0, 1}

UpdateComplexityThresholdCall(rating, technique_count) ==
  /\ Len(calls) < MaxThresholdCalls
  /\ \E r \in {UpdateComplexity(current_level, progression_history, rating,
                               technique_count, Now)} :
       /\ current_level' = r[1]
       /\ progression_history' = r[2]
  /\ calls' = Append(calls, [op |-> "update_complexity", rating |-> rating,
                             technique_count |-> technique_count])
  /\ UNCHANGED <<compatibility_matrix, confidence_scores, technique_graph,
                 technique_difficulties, flavor_profiles,
                 successful_combinations, lsVars, file, tsne_strict,
                 experiments, loopVars>>

NextThreshold ==
  \E rating \in ThresholdRatings, technique_count \in ThresholdTechniqueCounts :
    UpdateComplexityThresholdCall(rating, technique_count)

SpecThreshold == InitComponent /\ [][NextThreshold]_vars

\* C20: update_complexity changes the level only when (rating > 0.8 and
\* technique count >= level/10) or rating < 0.3; a rating in [0.3, 0.8] at
\* any technique count, and a rating > 0.8 with a technique count below
\* level/10, leave the level as it was.
C20_DeadZone ==
  [][Called({"update_complexity"})
     => /\ current_level' # current_level
             => \/ (NewCall.rating > 8
                      /\ 10 * NewCall.technique_count >= current_level)
                \/ NewCall.rating < 3
        /\ (NewCall.rating >= 3 /\ NewCall.rating <= 8)
             => current_level' = current_level
        /\ (NewCall.rating > 8 /\ 10 * NewCall.technique_count < current_level)
             => current_level' = current_level]_vars

\* promoted to 5 with no technique; then 0.9 with no technique (0 < 5/10),
\* 0.8 and 0.3 each left the level at 5
C20_Witness ==
  /\ Len(calls) = 4
  /\ calls[1].rating = 9 /\ calls[1].technique_count = 0
  /\ calls[2].rating = 9 /\ calls[2].technique_count = 0
  /\ calls[3].rating = 8 /\ calls[3].technique_count = 1
  /\ calls[4].rating = 3 /\ calls[4].technique_count = 1
  /\ \A i \in 1..4 : progression_history[i].level = 5
  /\ current_level = 5

\* C21: every update_complexity call appends exactly one entry with the level
\* after the call, the rating and the timestamp, whether or not the level
\* changed, and leaves the entries before it as they were; the log is as long
\* as the number of calls.
C21_LogAppendOnly ==
  [][Called({"update_complexity"})
     => /\ progression_history' =
             Append(progression_history,
                    [level |-> current_level', success_rate |-> NewCall.rating,
                     timestamp |-> Len(calls')])
        /\ Len(progression_history') = Len(calls')]_vars

\* the second call, with the rating 0.8, left the level at 5 and still has
\* its entry
C21_Witness ==
  /\ Len(calls) = 2
  /\ calls[1].rating = 9 /\ calls[1].technique_count = 0
  /\ calls[2].rating = 8 /\ calls[2].technique_count = 0
  /\ progression_history =
       <<[level |-> 5, success_rate |-> 9, timestamp |-> 1],
         [level |-> 5, success_rate |-> 8, timestamp |-> 2]>>

\* C22 (as claimed): one learn_from_feedback call blends each pair of distinct
\* names of its input exactly once per direction, also when a name occurs
\* more than once in the list, and leaves every other entry unchanged.
C22_OneBlendPerPair ==
  [][Called({"learn_from_feedback"})
     => \A a, b \in Ingredients :
          LET old_score == MGet(compatibility_matrix, a, b, QInt(0))
              old_confidence == MGet(confidence_scores, a, b, 1)
          IN  IF a # b /\ {a, b} \subseteq Range(NewCall.ingredients)
              THEN /\ MHas(compatibility_matrix', a, b)
                   /\ confidence_scores'[a][b] = old_confidence + 1
                   /\ compatibility_matrix'[a][b] =
                        QDiv(QAdd(QMul(old_score, QInt(old_confidence)),
                                  Tenths(NewCall.rating)),
                             QInt(old_confidence + 1))
              ELSE /\ MHas(compatibility_matrix', a, b)
                        <=> MHas(compatibility_matrix, a, b)
                   /\ MGet(compatibility_matrix', a, b, QInt(0)) = old_score
                   /\ MGet(confidence_scores', a, b, 1) = old_confidence]_vars

\* C23 (as claimed): a learn_from_feedback call with one ingredient changes no
\* confidence and registers the row of that ingredient.
C23_SingleIngredientRegistered ==
  [][(Called({"learn_from_feedback"}) /\ Len(NewCall.ingredients) = 1)
     => /\ confidence_scores' = confidence_scores
        /\ NewCall.ingredients[1] \in DOMAIN compatibility_matrix']_vars

(***************************************************************************)
(* The flavor-pair accumulator under perfect, partial and zero ratings.    *)
(***************************************************************************)
PairingLists == {<<"lemon", "chicken">>, <<"lemon", "chicken", "garlic">>}
PairingRatings == {0, 5, 10}

NextPairing ==
  \E ingredients \in PairingLists, rating \in PairingRatings :
    EvaluateRecipeSuccessCall(ingredients, <<>>, rating)

SpecPairing == InitComponent /\ [][NextPairing]_vars

\* the accumulator of (a, b), 0 when there is none
PairScore(fc, a, b) ==
  IF DHas(fc, a) /\ DHas(DGet(fc, a), b) THEN DGet(DGet(fc, a), b) ELSE QInt(0)
\* how many pairs of positions i < j of the list hold the names a and b
PairCount(ingredients, a, b) ==
  Cardinality({p \in Range(ForwardPairs(Len(ingredients))) :
                 {ingredients[p[1]], ingredients[p[2]]} = {a, b}})

\* C24 (as claimed): an event adds +1 to the accumulator of each of its pairs
\* when its rating is > 0 and -0.5 otherwise, the same in both directions.
C24_PositiveRatingRewards ==
  [][Called({"evaluate_recipe_success"})
     => \A a, b \in Ingredients :
          a # b =>
            /\ PairScore(flavor_combinations', a, b) =
                 QAdd(PairScore(flavor_combinations, a, b),
                      QMul(QInt(PairCount(NewCall.ingredients, a, b)),
                           IF NewCall.rating > 0 THEN QInt(1) ELSE Q(-1, 2)))
            /\ PairScore(flavor_combinations', a, b)
                 = PairScore(flavor_combinations', b, a)]_vars

\* C24 (amended): an event adds +1 to the accumulator of each of its pairs
\* when its rating is exactly 1 and -0.5 for every other rating, partial
\* ratings included, the same in both directions, so that score(A,B) equals
\* score(B,A).
C24_PerfectRatingRewards ==
  [][Called({"evaluate_recipe_success"})
     => \A a, b \in Ingredients :
          a # b =>
            /\ PairScore(flavor_combinations', a, b) =
                 QAdd(PairScore(flavor_combinations, a, b),
                      QMul(QInt(PairCount(NewCall.ingredients, a, b)),
                           IF NewCall.rating = 10 THEN QInt(1) ELSE Q(-1, 2)))
            /\ PairScore(flavor_combinations', a, b)
                 = PairScore(flavor_combinations', b, a)]_vars

\* after the rating 1 and then the partial rating 0.5 on lemon and chicken
\* the pair stands at 1 - 1/2 in both directions
C24_Witness ==
  /\ Len(calls) = 2
  /\ calls[1].ingredients = <<"lemon", "chicken">> /\ calls[1].rating = 10
  /\ calls[2].ingredients = <<"lemon", "chicken">> /\ calls[2].rating = 5
  /\ PairScore(flavor_combinations, "lemon", "chicken") = Q(1, 2)
  /\ PairScore(flavor_combinations, "chicken", "lemon") = Q(1, 2)

(***************************************************************************)
(* The technique graph against the log of learn_technique_sequence calls.  *)
(***************************************************************************)
\* how many consecutive pairs of the sequence are the edge e
ObservedIn(techniques, e) ==
  Cardinality({i \in 1..(Len(techniques) - 1) :
                 <<techniques[i], techniques[i + 1]>> = e})

\* observations of e in the accepted ones of the first n calls
RECURSIVE TimesObserved(_, _, _)
TimesObserved(log, e, n) ==
  IF n = 0 THEN 0
  ELSE TimesObserved(log, e, n - 1)
       + (IF log[n].rating > 7 THEN ObservedIn(log[n].techniques, e) ELSE 0)

\* (old + rating)/2, k times over
RECURSIVE Averaged(_, _, _)
Averaged(old, rating, k) ==
  IF k = 0 THEN old
  ELSE Averaged(QDiv(QAdd(old, Tenths(rating)), QInt(2)), rating, k - 1)

\* the difficulty of e after the first n calls, from the prior 1/2
RECURSIVE DifficultyAfter(_, _, _)
DifficultyAfter(log, e, n) ==
  IF n = 0 THEN Q(1, 2)
  ELSE Averaged(DifficultyAfter(log, e, n - 1), log[n].rating,
                IF log[n].rating > 7 THEN ObservedIn(log[n].techniques, e) ELSE 0)

\* C25: every accepted learn_technique_sequence call (rating in (0.7, 1]) adds
\* 1 to the weight of the edge of each consecutive pair, creating it at 1, and
\* sets its difficulty to (old + rating)/2 from old = 0.5; so in every
\* reachable state the edges are exactly the observed pairs, each with an
\* integer weight >= 1 equal to its number of observations in accepted
\* sequences and a difficulty in [0,1].
C25_WeightCountsObservations ==
  /\ technique_graph.weight \in [DOMAIN technique_graph.weight -> Nat \ {0}]
  /\ DOMAIN technique_difficulties = DOMAIN technique_graph.weight
  /\ \A e \in Techniques \X Techniques :
       LET n == TimesObserved(calls, e, Len(calls))
       IN  /\ HasEdge(technique_graph, e) <=> n >= 1
           /\ HasEdge(technique_graph, e) =>
                /\ technique_graph.weight[e] = n
                /\ technique_difficulties[e] = DifficultyAfter(calls, e, Len(calls))
                /\ QLe(QInt(0), technique_difficulties[e])
                /\ QLe(technique_difficulties[e], QInt(1))

\* saute -> sear seen in two accepted sequences, rated 0.9 and 1, and in one
\* rejected one: weight 2, difficulty ((0.5 + 0.9)/2 + 1)/2
C25_Witness ==
  /\ Len(calls) = 3
  /\ calls[1].techniques = <<"saute", "sear">> /\ calls[1].rating = 9
  /\ calls[2].techniques = <<"saute", "sear", "roast">> /\ calls[2].rating = 10
  /\ calls[3].techniques = <<"saute", "sear">> /\ calls[3].rating = 7
  /\ technique_graph.weight[<<"saute", "sear">>] = 2
  /\ technique_graph.weight[<<"sear", "roast">>] = 1
  /\ technique_difficulties[<<"saute", "sear">>] = Q(17, 20)

(***************************************************************************)
(* LearningSystem._calculate_complexity as a function of the recipe.  A    *)
(* step's time is <<>> when it has none (skipped by `if step.time`) and    *)
(* <<m>> when int(step.time.split("-")[0]) is m.                           *)
(***************************************************************************)
MaxScoreCalls == 1
Repeated(x, n) == [i \in 1..n |-> x]
ScoredRecipes ==
  [num_ingredients : {0, 3, 10, 12},
   num_techniques : {0, 2, 5, 7},
   steps : {<<>>, << <<>> >>, << <<5>>, <<>>, <<2>> >>, << <<45>>, <<30>> >>,
            Repeated(<<4>>, 15), Repeated(<<3>>, 20), Repeated(<<1>>, 16)}]

\* sum(int(step.time.split("-")[0]) for step in recipe["steps"] if step.time)
RECURSIVE TotalTime(_)
TotalTime(steps) ==
  IF steps = <<>> THEN 0
  ELSE (IF Head(steps) = <<>> THEN 0 ELSE Head(steps)[1]) + TotalTime(Tail(steps))

CalculateComplexityCall(recipe) ==
  /\ Len(calls) < MaxScoreCalls
  /\ calls' = Append(calls,
       [op |-> "_calculate_complexity",
        recipe |-> recipe,
        score |-> CalculateComplexity(recipe.num_ingredients, recipe.num_techniques,
                                      Len(recipe.steps), TotalTime(recipe.steps))])
  /\ UNCHANGED <<chefVars, lsVars, file, tsne_strict, experiments, loopVars>>

NextScore == \E recipe \in ScoredRecipes : CalculateComplexityCall(recipe)

SpecScore == InitComponent /\ [][NextScore]_vars

\* count/limit, and 1 from the limit on
CappedRatio(count, limit) == IF count >= limit THEN QInt(1) ELSE Q(count, limit)

\* C26: the complexity score of a recipe is the mean of ingredient count/10,
\* technique count/5, step count/15 and total minutes/60, each capped at 1,
\* and it lies in [0,1].
C26_ScoreIsCappedMean ==
  \A i \in 1..Len(calls) :
    calls[i].op = "_calculate_complexity" =>
      LET r == calls[i].recipe
      IN  /\ QMul(QInt(4), calls[i].score) =
               QAdd(QAdd(CappedRatio(r.num_ingredients, 10),
                         CappedRatio(r.num_techniques, 5)),
                    QAdd(CappedRatio(Len(r.steps), 15),
                         CappedRatio(TotalTime(r.steps), 60)))
          /\ QLe(QInt(0), calls[i].score)
          /\ QLe(calls[i].score, QInt(1))

\* 3 ingredients, 2 techniques, 2 steps of 45 and 30 minutes (capped at 60):
\* (3/10 + 2/5 + 2/15 + 1)/4 = 11/24
C26_Witness ==
  /\ Len(calls) = 1
  /\ calls[1].op = "_calculate_complexity"
  /\ calls[1].recipe = [num_ingredients |-> 3, num_techniques |-> 2,
                        steps |-> << <<45>>, <<30>> >>]
  /\ calls[1].score = Q(11, 24)

(***************************************************************************)
(* suggest_experiments over accumulators that differ from pair to pair.    *)
(***************************************************************************)
MaxRankingCalls == 5
RankingLists == {<<"lemon", "chicken">>, <<"chicken", "garlic">>,
                 <<"chicken", "garlic", "onion">>}

NextRanking ==
  \/ \E ingredients \in RankingLists :
       EvaluateRecipeSuccessUpTo(MaxRankingCalls, ingredients, <<>>, 10)
  \/ SuggestExperimentsUpTo(MaxRankingCalls)

SpecRanking == InitComponent /\ [][NextRanking]_vars

\* no proposal is preceded by one of strictly lower confidence
NonIncreasing(s) ==
  \A i, j \in 1..Len(s) : i < j => QLe(s[j].confidence, s[i].confidence)

\* C27: the sequence returned by suggest_experiments is ordered by
\* non-increasing confidence, and a second call on an unchanged accumulator
\* state returns the same sequence.
C27_RankedByConfidence ==
  [][Called({"suggest_experiments"})
     => /\ NonIncreasing(experiments')
        /\ (Len(calls) >= 1 /\ calls[Len(calls)].op = "suggest_experiments")
             => experiments' = experiments]_vars

\* lemon-chicken and chicken-garlic stand at 2, chicken-onion at 1: the
\* proposals at 0.2 come before those at 0.1, though lemon-onion was found
\* before garlic-lemon
C27_Witness ==
  /\ Len(calls) = 5
  /\ calls[5].op = "suggest_experiments"
  /\ Len(experiments) = 4
  /\ experiments[1].confidence = Q(1, 5)
  /\ experiments[2].confidence = Q(1, 5)
  /\ experiments[3].confidence = Q(1, 10)
  /\ experiments[1].ingredients = <<"lemon", "garlic">>
  /\ experiments[3].ingredients = <<"lemon", "onion">>

(***************************************************************************)
(* Feedback events of any size and rating against the mastery vector:      *)
(* /api/learn of backend/app/main.py with one technique and with 667 (the  *)
(* technique bonus 0.05 per technique then makes the mastery change        *)
(* 667/20 * 3/10 * 1/10 exceed 1 if ever it were applied with the          *)
(* multiplier 1) and the integer ratings 0, 1 and 2.                       *)
(***************************************************************************)
LongTechniques == {<<"saute">>, Repeated("saute", 667)}
IntegerRatings == {0, 10, 20}

NextLongRecipe ==
  \E ingredients \in AppLists, techniques \in LongTechniques,
     rating \in IntegerRatings :
    AppLearn(ingredients, techniques, rating, "saved")

SpecLongRecipe == Init /\ [][NextLongRecipe]_vars

\* C28: from the all-zero mastery vector no sequence of feedback events, of
\* any number of techniques and any ratings, brings a category to exactly 1:
\* every category stays strictly below 1.
C28_MasteryBelowOne ==
  \A c \in SkillCategory : QLt(categories[c], QInt(1))

\* after a perfect rating on 667 techniques, which raised in the novelty step
\* before the mastery update, and a rating 0 that ran the mastery update
C28_Witness ==
  /\ Len(calls) = 2
  /\ calls[1].rating = 10 /\ Len(calls[1].techniques) = 667 /\ calls[1].raised
  /\ calls[2].rating = 0 /\ Len(calls[2].techniques) = 667 /\ ~calls[2].raised
  /\ "mastery" \in Range(calls[2].order)
  /\ \A c \in SkillCategory : QLt(categories[c], QInt(1))

=============================================================================
